---------------------------- MODULE Spec2Model ----------------------------
(***************************************************************************)
(* Model of the cluster upgrade state manager of k8s-operator-libs         *)
(* (pkg/upgrade/upgrade_state.go).                                         *)
(*                                                                         *)
(* A reconciliation is three steps: BuildState groups the nodes of the     *)
(* cluster by their persisted upgrade state into a ClusterUpgradeState     *)
(* snapshot, ApplyState runs the ten phase processors over that snapshot   *)
(* and issues state-provider writes and collaborator calls, and            *)
(* ReturnToCaller hands the result back to the reconcile loop.  Between    *)
(* reconciliations the cluster changes under the Pod Manager, the Drain    *)
(* Manager, the kubelet and the administrator.                             *)
(***************************************************************************)
EXTENDS Integers, Sequences, FiniteSets, TLC

\* ------------------------------------------------------------- bounds
\* Nodes of the cluster whose whole upgrade is followed (Spec), nodes of the
\* clusters a single pass is tried on (SpecPass), and daemonset generations.
NumNodes == 2
NumPassNodes == 3
MaxGen == 2

Nodes == 1..NumNodes
PassNodes == 1..NumPassNodes

\* ------------------------------------------------- upgrade state names
UpgradeStateUnknown == ""
UpgradeStateUpgradeRequired == "upgrade-required"
UpgradeStateCordonRequired == "cordon-required"
UpgradeStateWaitForJobsRequired == "wait-for-jobs-required"
UpgradeStatePodDeletionRequired == "pod-deletion-required"
UpgradeStateDrainRequired == "drain-required"
UpgradeStatePodRestartRequired == "pod-restart-required"
UpgradeStateFailed == "upgrade-failed"
UpgradeStateUncordonRequired == "uncordon-required"
UpgradeStateDone == "upgrade-done"

\* The processors of ApplyState, in the order ApplyState calls them.
ProcessorOrder ==
    << UpgradeStateUnknown, UpgradeStateDone, UpgradeStateUpgradeRequired,
       UpgradeStateCordonRequired, UpgradeStateWaitForJobsRequired,
       UpgradeStatePodDeletionRequired, UpgradeStateDrainRequired,
       UpgradeStatePodRestartRequired, UpgradeStateFailed,
       UpgradeStateUncordonRequired >>

UpgradeStates == { ProcessorOrder[i] : i \in 1..Len(ProcessorOrder) }

\* The phases ApplyState counts as upgrades in progress.
InProgressStates ==
    { UpgradeStateCordonRequired, UpgradeStateDrainRequired,
      UpgradeStatePodRestartRequired, UpgradeStateWaitForJobsRequired,
      UpgradeStatePodDeletionRequired, UpgradeStateFailed,
      UpgradeStateUncordonRequired }

\* Pointers: Nil, or the one-element set holding the object pointed to.
Nil == {}

Ptr(x) == {x}

Deref(p) == CHOOSE x \in p : TRUE

\* ------------------------------------------------------------ the state
VARIABLES
    nodeState,      \* node -> persisted upgrade state (the state provider's label)
    annotated,      \* node -> the upgrade-initial-state annotation is present
    unschedulable,  \* node -> Node.Spec.Unschedulable
    skipLabel,      \* node -> the skip-upgrade label is "true"
    pod,            \* node -> the driver pod running on it
    dsGen,          \* generation of the driver daemonset
    policy,         \* the DriverUpgradePolicySpec object handed to ApplyState
    pc,             \* position of the reconcile loop: idle, built, applied
    snapshot,       \* the ClusterUpgradeState handed to ApplyState
    calls,          \* calls issued by the current ApplyState, in order
    ret,            \* what ApplyState returned: none, nil, error
    configured,     \* the upgrade policy as configured in the cluster
    startedUnsched  \* history: node was unschedulable when moved to upgrade-required

vars == << nodeState, annotated, unschedulable, skipLabel, pod, dsGen, policy,
           pc, snapshot, calls, ret, configured, startedUnsched >>

\* -------------------------------------------------------------- helpers
RECURSIVE SeqOfSet(_)
SeqOfSet(S) ==
    IF S = {} THEN << >>
    ELSE LET m == CHOOSE x \in S : \A y \in S : x <= y
         IN << m >> \o SeqOfSet(S \ {m})

\* A driver pod: its pod-template-generation, Status.Phase, the Ready flag of
\* each entry of Status.ContainerStatuses, and whether DeletionTimestamp is set.
Pod(gen, phase, ready, terminating) ==
    [gen |-> gen, phase |-> phase, ready |-> ready, terminating |-> terminating]

\* NodeUpgradeState of node n as the snapshot builder reads it from the cluster.
NodeUpgradeStateOf(n) ==
    [Node |-> [Name |-> n, Unschedulable |-> unschedulable[n],
               Annotated |-> annotated[n], SkipLabel |-> skipLabel[n]],
     DriverPod |-> pod[n],
     DriverDaemonSet |-> [Generation |-> dsGen]]

\* NewClusterUpgradeState filled by the snapshot builder: every node appears in
\* the list of its persisted state, in node order.
ClusterUpgradeStateOf ==
    [NodeStates |->
        [s \in UpgradeStates |->
            LET ns == SeqOfSet({n \in DOMAIN nodeState : nodeState[n] = s})
            IN [i \in 1..Len(ns) |-> NodeUpgradeStateOf(ns[i])]]]

\* ------------------------------------------------ calls of one ApplyState
\* The context of a running ApplyState: the cluster fields its calls change,
\* the policy object it was handed (ProcessDrainNodes writes through the
\* DrainSpec pointer), the calls issued so far, the ordinal of the call that
\* fails (0: none does) and the error of the last call or processor.
NewContext(upgradePolicy, failAt) ==
    [nodeState |-> nodeState, annotated |-> annotated,
     unschedulable |-> unschedulable, policy |-> upgradePolicy,
     calls |-> << >>, failAt |-> failAt, err |-> FALSE, proc |-> 0]

\* One call to a collaborator, the state provider or utils: recorded with the
\* processor issuing it and with its outcome.
Issue(c, op, nodes, arg) ==
    LET fails == (Len(c.calls) + 1 = c.failAt)
    IN [c EXCEPT !.calls = Append(@, [proc |-> c.proc, op |-> op, nodes |-> nodes,
                                       arg |-> arg, ok |-> ~fails]),
                 !.err = fails]

\* NodeUpgradeStateProvider.ChangeNodeUpgradeState: on success the node's
\* persisted state is the new state.
ChangeNodeUpgradeState(c, node, newState) ==
    LET d == Issue(c, "ChangeNodeUpgradeState", << node.Name >>, << newState >>)
    IN IF d.err THEN d ELSE [d EXCEPT !.nodeState[node.Name] = newState]

\* NodeUpgradeStateProvider.ChangeNodeUpgradeAnnotation on the
\* upgrade-initial-state key: the value "null" deletes the annotation.
ChangeNodeUpgradeAnnotation(c, node, value) ==
    LET d == Issue(c, "ChangeNodeUpgradeAnnotation", << node.Name >>, << value >>)
    IN IF d.err THEN d ELSE [d EXCEPT !.annotated[node.Name] = (value # "null")]

\* CordonManager.Cordon and Uncordon.
Cordon(c, node) ==
    LET d == Issue(c, "Cordon", << node.Name >>, << >>)
    IN IF d.err THEN d ELSE [d EXCEPT !.unschedulable[node.Name] = TRUE]

Uncordon(c, node) ==
    LET d == Issue(c, "Uncordon", << node.Name >>, << >>)
    IN IF d.err THEN d ELSE [d EXCEPT !.unschedulable[node.Name] = FALSE]

\* utils.GetPodTemplateGeneration: it may return an error.
GetPodTemplateGeneration(c, nodeState1) ==
    Issue(c, "GetPodTemplateGeneration", << nodeState1.Node.Name >>, << >>)

\* The Pod Manager's and the Drain Manager's schedule-and-return calls.
ScheduleCheckOnPodCompletion(c, selector, nodes) ==
    Issue(c, "ScheduleCheckOnPodCompletion", nodes, << selector >>)

SchedulePodEviction(c, deletionSpec, nodes) ==
    Issue(c, "SchedulePodEviction", nodes, << deletionSpec >>)

SchedulePodsRestart(c, pods) ==
    Issue(c, "SchedulePodsRestart", pods, << >>)

ScheduleNodesDrain(c, spec, nodes) ==
    Issue(c, "ScheduleNodesDrain", nodes, spec.PodSelector)

\* ----------------------------------------------------------- predicates
\* The flag not read.
isNodeUnschedulableNever(node) == FALSE

isNodeUnschedulable(node) == node.Unschedulable

\* The label not read.
skipNodeUpgradeNever(node) == FALSE

skipNodeUpgrade(node) == node.SkipLabel

\* The annotation lookup of ProcessPodRestartNodes and ProcessUpgradeFailedNodes.
\* The annotation not found.
hasInitialStateAnnotationNever(node) == FALSE

hasInitialStateAnnotation(node) == node.Annotated

generationDiffers(nodeState1) ==
    nodeState1.DriverPod.gen # nodeState1.DriverDaemonSet.Generation

\* The condition without the loop over the container statuses.
driverPodInSyncUnchecked(nodeState1) ==
    /\ nodeState1.DriverPod.gen = nodeState1.DriverDaemonSet.Generation
    /\ nodeState1.DriverPod.phase = "Running"
    /\ Len(nodeState1.DriverPod.ready) # 0

\* The condition of isDriverPodInSync once the generation was read.
driverPodInSync(nodeState1) ==
    IF /\ nodeState1.DriverPod.gen = nodeState1.DriverDaemonSet.Generation
       /\ nodeState1.DriverPod.phase = "Running"
       /\ Len(nodeState1.DriverPod.ready) # 0
    THEN \A i \in 1..Len(nodeState1.DriverPod.ready) : nodeState1.DriverPod.ready[i]
    ELSE FALSE

\* isDriverPodInSync: the context after reading the generation; inSync is
\* meaningful when err is FALSE.
isDriverPodInSync(c, nodeState1) ==
    [ctx |-> GetPodTemplateGeneration(c, nodeState1),
     inSync |-> driverPodInSync(nodeState1)]

\* The skip-drain selector and the selector ProcessDrainNodes stores in the
\* DrainSpec: selectors are comma-separated lists of terms.
skipDrainPodSelector == "skip-drain!=true"

drainPodSelector(podSelector) ==
    IF podSelector = << >> THEN << skipDrainPodSelector >>
    ELSE podSelector \o << skipDrainPodSelector >>

\* The selector not read.
noWaitSelectorAlways(waitForCompletionSpec) == TRUE

noWaitSelector(waitForCompletionSpec) ==
    waitForCompletionSpec = Nil \/ Deref(waitForCompletionSpec).PodSelector = ""

\* Enable not read.
drainDisabledNilOnly(drainSpec) == drainSpec = Nil

drainDisabled(drainSpec) == drainSpec = Nil \/ ~Deref(drainSpec).Enable

\* The count without the upgrade-failed nodes.
upgradesInProgressFailedFree(currentState) ==
    Len(currentState.NodeStates[UpgradeStateCordonRequired]) +
    Len(currentState.NodeStates[UpgradeStateDrainRequired]) +
    Len(currentState.NodeStates[UpgradeStatePodRestartRequired]) +
    Len(currentState.NodeStates[UpgradeStateWaitForJobsRequired]) +
    Len(currentState.NodeStates[UpgradeStatePodDeletionRequired]) +
    Len(currentState.NodeStates[UpgradeStateUncordonRequired])

upgradesInProgress(currentState) ==
    Len(currentState.NodeStates[UpgradeStateCordonRequired]) +
    Len(currentState.NodeStates[UpgradeStateDrainRequired]) +
    Len(currentState.NodeStates[UpgradeStatePodRestartRequired]) +
    Len(currentState.NodeStates[UpgradeStateWaitForJobsRequired]) +
    Len(currentState.NodeStates[UpgradeStatePodDeletionRequired]) +
    Len(currentState.NodeStates[UpgradeStateFailed]) +
    Len(currentState.NodeStates[UpgradeStateUncordonRequired])

\* The slots without the upgrades in progress subtracted.
upgradesAvailableNotSubtracted(currentState, upgradePolicy) ==
    IF Deref(upgradePolicy).MaxParallelUpgrades = 0
    THEN Len(currentState.NodeStates[UpgradeStateUpgradeRequired])
    ELSE Deref(upgradePolicy).MaxParallelUpgrades

upgradesAvailable(currentState, upgradePolicy) ==
    IF Deref(upgradePolicy).MaxParallelUpgrades = 0
    THEN Len(currentState.NodeStates[UpgradeStateUpgradeRequired])
    ELSE Deref(upgradePolicy).MaxParallelUpgrades - upgradesInProgress(currentState)

NodeNames(list) == [i \in 1..Len(list) |-> list[i].Node.Name]

\* ------------------------------------------------------ phase processors
\* Every processor takes the context and returns it with the calls it issued;
\* err is the error it returns.

\* F applied to the value of x.
Let(x, F(_)) == CHOOSE r \in { F(v) : v \in {x} } : TRUE

\* "if err != nil { return err }": the context x when its last call failed,
\* else what follows, applied to it.
OnSuccess(x, F(_)) == Let(x, LAMBDA d : IF d.err THEN d ELSE F(d))

\* The iteration writing upgrade-done whatever list the node is in.
DoneOrUnknownNodeAlwaysWrites(c, ns, nodeStateName) ==
    OnSuccess(GetPodTemplateGeneration(c, ns), LAMBDA c1 :
        IF generationDiffers(ns)
        THEN OnSuccess(IF isNodeUnschedulable(ns.Node)
                       THEN ChangeNodeUpgradeAnnotation(c1, ns.Node, "true")
                       ELSE c1,
                       LAMBDA c2 :
                           ChangeNodeUpgradeState(c2, ns.Node, UpgradeStateUpgradeRequired))
        ELSE ChangeNodeUpgradeState(c1, ns.Node, UpgradeStateDone))

\* The iteration writing the state before the annotation.
DoneOrUnknownNodeStateFirst(c, ns, nodeStateName) ==
    OnSuccess(GetPodTemplateGeneration(c, ns), LAMBDA c1 :
        IF generationDiffers(ns)
        THEN OnSuccess(ChangeNodeUpgradeState(c1, ns.Node, UpgradeStateUpgradeRequired),
                       LAMBDA c2 :
                           IF isNodeUnschedulable(ns.Node)
                           THEN ChangeNodeUpgradeAnnotation(c2, ns.Node, "true")
                           ELSE c2)
        ELSE IF nodeStateName = UpgradeStateUnknown
        THEN ChangeNodeUpgradeState(c1, ns.Node, UpgradeStateDone)
        ELSE c1)

\* One iteration of the loop of ProcessDoneOrUnknownNodes.
DoneOrUnknownNode(c, ns, nodeStateName) ==
    OnSuccess(GetPodTemplateGeneration(c, ns), LAMBDA c1 :
        IF generationDiffers(ns)
        THEN OnSuccess(IF isNodeUnschedulable(ns.Node)
                       THEN ChangeNodeUpgradeAnnotation(c1, ns.Node, "true")
                       ELSE c1,
                       LAMBDA c2 :
                           ChangeNodeUpgradeState(c2, ns.Node, UpgradeStateUpgradeRequired))
        ELSE IF nodeStateName = UpgradeStateUnknown
        THEN ChangeNodeUpgradeState(c1, ns.Node, UpgradeStateDone)
        ELSE c1)

RECURSIVE DoneOrUnknownLoop(_, _, _, _)
DoneOrUnknownLoop(c, list, i, nodeStateName) ==
    IF i > Len(list) THEN c
    ELSE OnSuccess(DoneOrUnknownNode(c, list[i], nodeStateName),
                   LAMBDA d : DoneOrUnknownLoop(d, list, i + 1, nodeStateName))

ProcessDoneOrUnknownNodes(c, currentClusterState, nodeStateName) ==
    DoneOrUnknownLoop(c, currentClusterState.NodeStates[nodeStateName], 1, nodeStateName)

RECURSIVE UpgradeRequiredLoop(_, _, _, _)
UpgradeRequiredLoop(c, list, i, limit) ==
    IF i > Len(list) THEN c
    ELSE IF limit <= 0 THEN c
    ELSE IF skipNodeUpgrade(list[i].Node) THEN UpgradeRequiredLoop(c, list, i + 1, limit)
    ELSE OnSuccess(ChangeNodeUpgradeState(c, list[i].Node, UpgradeStateCordonRequired),
                   LAMBDA d : UpgradeRequiredLoop(d, list, i + 1, limit - 1))

ProcessUpgradeRequiredNodes(c, currentClusterState, limit) ==
    UpgradeRequiredLoop(c, currentClusterState.NodeStates[UpgradeStateUpgradeRequired], 1, limit)

\* The iteration with the error of Cordon dropped.
CordonRequiredNodeUnchecked(c, ns) ==
    Let(Cordon(c, ns.Node), LAMBDA c1 :
        ChangeNodeUpgradeState([c1 EXCEPT !.err = FALSE], ns.Node,
                               UpgradeStateWaitForJobsRequired))

\* The iteration carrying the node on through the phase it has just entered.
CordonRequiredNodeTwoSteps(c, ns) ==
    OnSuccess(Cordon(c, ns.Node), LAMBDA c1 :
        OnSuccess(ChangeNodeUpgradeState(c1, ns.Node, UpgradeStateWaitForJobsRequired),
                  LAMBDA c2 : ChangeNodeUpgradeState(c2, ns.Node,
                                                     UpgradeStatePodDeletionRequired)))

\* One iteration of the loop of ProcessCordonRequiredNodes.
CordonRequiredNode(c, ns) ==
    OnSuccess(Cordon(c, ns.Node), LAMBDA c1 :
        ChangeNodeUpgradeState(c1, ns.Node, UpgradeStateWaitForJobsRequired))

RECURSIVE CordonRequiredLoop(_, _, _)
CordonRequiredLoop(c, list, i) ==
    IF i > Len(list) THEN c
    ELSE OnSuccess(CordonRequiredNode(c, list[i]),
                   LAMBDA d : CordonRequiredLoop(d, list, i + 1))

ProcessCordonRequiredNodes(c, currentClusterState) ==
    CordonRequiredLoop(c, currentClusterState.NodeStates[UpgradeStateCordonRequired], 1)

\* One iteration of the loop of ProcessWaitForJobsRequiredNodes: the error of
\* the state change is assigned to the blank identifier.
WaitForJobsRequiredNode(c, ns, waitForCompletionSpec) ==
    IF noWaitSelector(waitForCompletionSpec)
    THEN [ChangeNodeUpgradeState(c, ns.Node, UpgradeStatePodDeletionRequired)
             EXCEPT !.err = FALSE]
    ELSE c

RECURSIVE WaitForJobsRequiredLoop(_, _, _, _)
WaitForJobsRequiredLoop(c, list, i, waitForCompletionSpec) ==
    IF i > Len(list) THEN c
    ELSE Let(WaitForJobsRequiredNode(c, list[i], waitForCompletionSpec),
             LAMBDA d : WaitForJobsRequiredLoop(d, list, i + 1, waitForCompletionSpec))

ProcessWaitForJobsRequiredNodes(c, currentClusterState, waitForCompletionSpec) ==
    LET list == currentClusterState.NodeStates[UpgradeStateWaitForJobsRequired]
        nodes == NodeNames(list)
    IN Let(WaitForJobsRequiredLoop(c, list, 1, waitForCompletionSpec), LAMBDA c1 :
           IF noWaitSelector(waitForCompletionSpec) THEN c1
           ELSE IF Len(nodes) = 0 THEN c1
           ELSE ScheduleCheckOnPodCompletion(
                    c1, Deref(waitForCompletionSpec).PodSelector, nodes))

ProcessPodDeletionRequiredNodes(c, currentClusterState, podDeletionSpec) ==
    LET nodes == NodeNames(currentClusterState.NodeStates[UpgradeStatePodDeletionRequired])
    IN IF Len(nodes) = 0 THEN c
       ELSE SchedulePodEviction(c, podDeletionSpec, nodes)

RECURSIVE DrainDisabledLoop(_, _, _)
DrainDisabledLoop(c, list, i) ==
    IF i > Len(list) THEN c
    ELSE OnSuccess(ChangeNodeUpgradeState(c, list[i].Node, UpgradeStatePodRestartRequired),
                   LAMBDA d : DrainDisabledLoop(d, list, i + 1))

\* ProcessDrainNodes: drainSpec is the pointer held by the policy object, so
\* the selector it stores is stored in the policy.
ProcessDrainNodes(c, currentClusterState, drainSpec) ==
    LET list == currentClusterState.NodeStates[UpgradeStateDrainRequired]
    IN IF drainDisabled(drainSpec) THEN DrainDisabledLoop(c, list, 1)
       ELSE LET spec == [Deref(drainSpec) EXCEPT !.PodSelector = drainPodSelector(@)]
                c1 == [c EXCEPT !.policy = Ptr([Deref(@) EXCEPT !.DrainSpec = Ptr(spec)])]
            IN ScheduleNodesDrain(c1, spec, NodeNames(list))

\* The marker not looked up.
stateAfterInSyncUnmarked(node) == UpgradeStateUncordonRequired

\* The state a node in pod-restart-required or upgrade-failed moves to once its
\* driver pod is in sync.
stateAfterInSync(node) ==
    IF hasInitialStateAnnotation(node) THEN UpgradeStateDone
    ELSE UpgradeStateUncordonRequired

\* The in-sync branch shared by ProcessPodRestartNodes and
\* ProcessUpgradeFailedNodes.
InSyncNode(c, ns) ==
    LET newUpgradeState == stateAfterInSync(ns.Node)
    IN OnSuccess(ChangeNodeUpgradeState(c, ns.Node, newUpgradeState), LAMBDA c1 :
           IF newUpgradeState = UpgradeStateDone
           THEN ChangeNodeUpgradeAnnotation(c1, ns.Node, "null")
           ELSE c1)

\* The deletion timestamp not read.
queuedForRestartTerminatingToo(ns) == generationDiffers(ns)

\* Whether the loop of ProcessPodRestartNodes queues the driver pod for restart.
queuedForRestart(ns) == generationDiffers(ns) /\ ~ns.DriverPod.terminating

\* One iteration of the loop of ProcessPodRestartNodes, the pods list apart.
PodRestartNode(c, ns) ==
    OnSuccess(GetPodTemplateGeneration(c, ns), LAMBDA c1 :
        IF generationDiffers(ns) THEN c1
        ELSE Let(isDriverPodInSync(c1, ns), LAMBDA r :
                 IF r.ctx.err THEN r.ctx
                 ELSE IF r.inSync THEN InSyncNode(r.ctx, ns)
                 ELSE r.ctx))

RECURSIVE PodRestartLoop(_, _, _, _)
PodRestartLoop(c, list, i, pods) ==
    IF i > Len(list) THEN SchedulePodsRestart(c, pods)
    ELSE OnSuccess(PodRestartNode(c, list[i]), LAMBDA d :
             PodRestartLoop(d, list, i + 1,
                            IF queuedForRestart(list[i])
                            THEN Append(pods, list[i].Node.Name) ELSE pods))

ProcessPodRestartNodes(c, currentClusterState) ==
    PodRestartLoop(c, currentClusterState.NodeStates[UpgradeStatePodRestartRequired], 1, << >>)

\* The iteration checking the pod and writing nothing.
UpgradeFailedNodeLeftFailed(c, ns) == isDriverPodInSync(c, ns).ctx

\* One iteration of the loop of ProcessUpgradeFailedNodes.
UpgradeFailedNode(c, ns) ==
    Let(isDriverPodInSync(c, ns), LAMBDA r :
        IF r.ctx.err THEN r.ctx
        ELSE IF r.inSync THEN InSyncNode(r.ctx, ns)
        ELSE r.ctx)

RECURSIVE UpgradeFailedLoop(_, _, _)
UpgradeFailedLoop(c, list, i) ==
    IF i > Len(list) THEN c
    ELSE OnSuccess(UpgradeFailedNode(c, list[i]),
                   LAMBDA d : UpgradeFailedLoop(d, list, i + 1))

ProcessUpgradeFailedNodes(c, currentClusterState) ==
    UpgradeFailedLoop(c, currentClusterState.NodeStates[UpgradeStateFailed], 1)

\* One iteration of the loop of ProcessUncordonRequiredNodes.
UncordonRequiredNode(c, ns) ==
    OnSuccess(Uncordon(c, ns.Node), LAMBDA c1 :
        ChangeNodeUpgradeState(c1, ns.Node, UpgradeStateDone))

RECURSIVE UncordonRequiredLoop(_, _, _)
UncordonRequiredLoop(c, list, i) ==
    IF i > Len(list) THEN c
    ELSE OnSuccess(UncordonRequiredNode(c, list[i]),
                   LAMBDA d : UncordonRequiredLoop(d, list, i + 1))

ProcessUncordonRequiredNodes(c, currentClusterState) ==
    UncordonRequiredLoop(c, currentClusterState.NodeStates[UpgradeStateUncordonRequired], 1)

\* ----------------------------------------------------------- ApplyState
\* Processor number i of ApplyState run on context c.
RunProcessor(c, i, currentState, limit) ==
    Let([c EXCEPT !.proc = i], LAMBDA d :
        CASE i = 1 -> ProcessDoneOrUnknownNodes(d, currentState, UpgradeStateUnknown)
          [] i = 2 -> ProcessDoneOrUnknownNodes(d, currentState, UpgradeStateDone)
          [] i = 3 -> ProcessUpgradeRequiredNodes(d, currentState, limit)
          [] i = 4 -> ProcessCordonRequiredNodes(d, currentState)
          [] i = 5 -> ProcessWaitForJobsRequiredNodes(d, currentState,
                                                      Deref(d.policy).WaitForCompletion)
          [] i = 6 -> ProcessPodDeletionRequiredNodes(d, currentState,
                                                      Deref(d.policy).PodDeletion)
          [] i = 7 -> ProcessDrainNodes(d, currentState, Deref(d.policy).DrainSpec)
          [] i = 8 -> ProcessPodRestartNodes(d, currentState)
          [] i = 9 -> ProcessUpgradeFailedNodes(d, currentState)
          [] i = 10 -> ProcessUncordonRequiredNodes(d, currentState))

\* The chain not ended by an error.
RECURSIVE RunProcessorsPastErrors(_, _, _, _)
RunProcessorsPastErrors(c, i, currentState, limit) ==
    IF i > Len(ProcessorOrder) THEN c
    ELSE Let(RunProcessor(c, i, currentState, limit),
             LAMBDA d : RunProcessorsPastErrors(d, i + 1, currentState, limit))

\* The chain of processors from number i on: an error ends it.
RECURSIVE RunProcessors(_, _, _, _)
RunProcessors(c, i, currentState, limit) ==
    IF i > Len(ProcessorOrder) THEN c
    ELSE OnSuccess(RunProcessor(c, i, currentState, limit),
                   LAMBDA d : RunProcessors(d, i + 1, currentState, limit))

\* ApplyState with AutoUpgrade not read.
ApplyStateAutoUpgradeUnread(currentState, upgradePolicy, failAt) ==
    IF currentState = Nil
    THEN [ctx |-> NewContext(upgradePolicy, failAt), ret |-> "error"]
    ELSE IF upgradePolicy = Nil
    THEN [ctx |-> NewContext(upgradePolicy, failAt), ret |-> "nil"]
    ELSE Let(RunProcessors(NewContext(upgradePolicy, failAt), 1, Deref(currentState),
                           upgradesAvailable(Deref(currentState), upgradePolicy)),
             LAMBDA d : [ctx |-> d, ret |-> IF d.err THEN "error" ELSE "nil"])

\* ApplyState(currentState, upgradePolicy) when the call numbered failAt fails:
\* the final context; ret is the error value returned.
ApplyState(currentState, upgradePolicy, failAt) ==
    IF currentState = Nil
    THEN [ctx |-> NewContext(upgradePolicy, failAt), ret |-> "error"]
    ELSE IF upgradePolicy = Nil \/ ~Deref(upgradePolicy).AutoUpgrade
    THEN [ctx |-> NewContext(upgradePolicy, failAt), ret |-> "nil"]
    ELSE Let(RunProcessors(NewContext(upgradePolicy, failAt), 1, Deref(currentState),
                           upgradesAvailable(Deref(currentState), upgradePolicy)),
             LAMBDA d : [ctx |-> d, ret |-> IF d.err THEN "error" ELSE "nil"])

\* ------------------------------------------------------------- policies
DriverUpgradePolicySpec(autoUpgrade, maxParallelUpgrades, waitForCompletion, drainSpec) ==
    Ptr([AutoUpgrade |-> autoUpgrade, MaxParallelUpgrades |-> maxParallelUpgrades,
         WaitForCompletion |-> waitForCompletion, PodDeletion |-> Nil,
         DrainSpec |-> drainSpec])

WaitForCompletionSpec(podSelector) == Ptr([PodSelector |-> podSelector])

DrainSpec(enable, podSelector) == Ptr([Enable |-> enable, PodSelector |-> podSelector])

\* The policy objects a caller hands to ApplyState.
Policies ==
    { Nil,
      DriverUpgradePolicySpec(FALSE, 1, Nil, Nil),
      DriverUpgradePolicySpec(TRUE, 0, Nil, Nil),
      DriverUpgradePolicySpec(TRUE, 1, WaitForCompletionSpec(""), DrainSpec(FALSE, << >>)),
      DriverUpgradePolicySpec(TRUE, 1, WaitForCompletionSpec("app=job"), DrainSpec(TRUE, << >>)),
      DriverUpgradePolicySpec(TRUE, 2, Nil, DrainSpec(TRUE, << "app=gpu" >>)) }

\* ------------------------------------------------------------------ Init
Init ==
    /\ nodeState = [n \in Nodes |-> UpgradeStateUnknown]
    /\ annotated = [n \in Nodes |-> FALSE]
    /\ unschedulable = [n \in Nodes |-> FALSE]
    /\ skipLabel \in [Nodes -> BOOLEAN]
    /\ pod = [n \in Nodes |-> Pod(1, "Running", << TRUE >>, FALSE)]
    /\ dsGen = 1
    /\ configured \in Policies
    /\ policy = configured
    /\ pc = "idle"
    /\ snapshot = Nil
    /\ calls = << >>
    /\ ret = "none"
    /\ startedUnsched = [n \in Nodes |-> FALSE]

cluster == << nodeState, annotated, unschedulable, skipLabel, pod, dsGen >>
history == << configured, startedUnsched >>
pass == << pc, snapshot, calls, ret >>

\* ------------------------------------------------- the reconcile loop
\* The caller builds the snapshot from the cluster, or passes a nil snapshot,
\* and reads the policy object from the cluster's configuration.
BuildState ==
    /\ pc = "idle"
    /\ \/ snapshot' = Ptr(ClusterUpgradeStateOf)
       \/ snapshot' = Nil
    /\ policy' = configured
    /\ pc' = "built"
    /\ calls' = << >>
    /\ ret' = "none"
    /\ UNCHANGED << cluster, history >>

\* Successful calls of the pass that moved node n to state s.
MovedTo(log, n, s) ==
    \E i \in 1..Len(log) :
        /\ log[i].op = "ChangeNodeUpgradeState"
        /\ log[i].ok
        /\ log[i].nodes = << n >>
        /\ log[i].arg = << s >>

SnapshotNode(cs, n) ==
    LET s == CHOOSE s \in UpgradeStates :
                 \E i \in 1..Len(cs.NodeStates[s]) : cs.NodeStates[s][i].Node.Name = n
        i == CHOOSE i \in 1..Len(cs.NodeStates[s]) : cs.NodeStates[s][i].Node.Name = n
    IN cs.NodeStates[s][i].Node

\* One ApplyState on the snapshot built, with at most one failing call.
ApplyStateCall ==
    /\ pc = "built"
    /\ \E failAt \in 0..Len(ApplyState(snapshot, policy, 0).ctx.calls) :
         \E r \in { ApplyState(snapshot, policy, failAt) } :
            /\ nodeState' = r.ctx.nodeState
            /\ annotated' = r.ctx.annotated
            /\ unschedulable' = r.ctx.unschedulable
            /\ policy' = r.ctx.policy
            /\ calls' = r.ctx.calls
            /\ ret' = r.ret
            /\ startedUnsched' =
                 [n \in DOMAIN nodeState |->
                    IF MovedTo(r.ctx.calls, n, UpgradeStateUpgradeRequired)
                    THEN SnapshotNode(Deref(snapshot), n).Unschedulable
                    ELSE IF MovedTo(r.ctx.calls, n, UpgradeStateDone) THEN FALSE
                    ELSE startedUnsched[n]]
    /\ pc' = "applied"
    /\ UNCHANGED << skipLabel, pod, dsGen, snapshot, configured >>

\* ApplyState has returned; the reconcile loop waits for its next trigger.
ReturnToCaller ==
    /\ pc = "applied"
    /\ pc' = "idle"
    /\ snapshot' = Nil
    /\ policy' = configured
    /\ calls' = << >>
    /\ ret' = "none"
    /\ UNCHANGED << cluster, history >>

\* ------------------------------------------------------ the environment
\* The driver daemonset is updated: its generation grows.
DaemonSetUpdate ==
    /\ pc = "idle"
    /\ dsGen < MaxGen
    /\ dsGen' = dsGen + 1
    /\ UNCHANGED << nodeState, annotated, unschedulable, skipLabel, pod, policy,
                    pass, history >>

\* The Pod Manager deletes an outdated driver pod it was asked to restart.
PodManagerDeletesPod(n) ==
    /\ pc = "idle"
    /\ nodeState[n] = UpgradeStatePodRestartRequired
    /\ pod[n].gen # dsGen
    /\ ~pod[n].terminating
    /\ pod' = [pod EXCEPT ![n].terminating = TRUE]
    /\ UNCHANGED << nodeState, annotated, unschedulable, skipLabel, dsGen, policy,
                    pass, history >>

\* The daemonset controller replaces a deleted pod by one of its generation.
PodRecreated(n) ==
    /\ pc = "idle"
    /\ pod[n].terminating
    /\ pod' = [pod EXCEPT ![n] = Pod(dsGen, "Pending", << FALSE >>, FALSE)]
    /\ UNCHANGED << nodeState, annotated, unschedulable, skipLabel, dsGen, policy,
                    pass, history >>

\* The kubelet starts the pod, then its container becomes ready.
PodProgresses(n) ==
    /\ pc = "idle"
    /\ ~pod[n].terminating
    /\ \/ /\ pod[n].phase = "Pending"
          /\ pod' = [pod EXCEPT ![n].phase = "Running"]
       \/ /\ pod[n].phase = "Running"
          /\ pod[n].ready = << FALSE >>
          /\ pod' = [pod EXCEPT ![n].ready = << TRUE >>]
    /\ UNCHANGED << nodeState, annotated, unschedulable, skipLabel, dsGen, policy,
                    pass, history >>

\* The Pod Manager and the Drain Manager finish the job scheduled for a node
\* and write its next state, or upgrade-failed.
ManagerAdvances(n) ==
    /\ pc = "idle"
    /\ \/ /\ nodeState[n] = UpgradeStateWaitForJobsRequired
          /\ nodeState' = [nodeState EXCEPT ![n] = UpgradeStatePodDeletionRequired]
       \/ /\ nodeState[n] = UpgradeStatePodDeletionRequired
          /\ nodeState' = [nodeState EXCEPT ![n] = UpgradeStateDrainRequired]
       \/ /\ nodeState[n] = UpgradeStateDrainRequired
          /\ nodeState' = [nodeState EXCEPT ![n] = UpgradeStatePodRestartRequired]
       \/ /\ nodeState[n] \in { UpgradeStatePodDeletionRequired, UpgradeStateDrainRequired,
                                UpgradeStatePodRestartRequired }
          /\ nodeState' = [nodeState EXCEPT ![n] = UpgradeStateFailed]
    /\ UNCHANGED << annotated, unschedulable, skipLabel, pod, dsGen, policy,
                    pass, history >>

\* The administrator cordons or uncordons a node that is not being upgraded.
AdminCordons(n) ==
    /\ pc = "idle"
    /\ nodeState[n] \in { UpgradeStateUnknown, UpgradeStateDone }
    /\ unschedulable' = [unschedulable EXCEPT ![n] = ~@]
    /\ UNCHANGED << nodeState, annotated, skipLabel, pod, dsGen, policy,
                    pass, history >>

Environment ==
    \E n \in DOMAIN nodeState :
        \/ PodManagerDeletesPod(n)
        \/ PodRecreated(n)
        \/ PodProgresses(n)
        \/ ManagerAdvances(n)
        \/ AdminCordons(n)

Next ==
    \/ BuildState
    \/ ApplyStateCall
    \/ ReturnToCaller
    \/ DaemonSetUpdate
    \/ Environment

Spec == Init /\ [][Next]_vars

\* ------------------------------------------- single passes on any snapshot
\* The driver pods a single pass is tried on: of the previous generation, and
\* of the daemonset's generation, running and ready.
OutdatedPod == Pod(MaxGen - 1, "Running", << TRUE >>, FALSE)
InSyncPod == Pod(MaxGen, "Running", << TRUE >>, FALSE)

\* Driver pods on the way: being deleted, of the daemonset's generation with a
\* container not ready, not yet running, or with no container status reported.
TerminatingPod == Pod(MaxGen - 1, "Running", << TRUE >>, TRUE)
NotReadyPod == Pod(MaxGen, "Running", << TRUE, FALSE >>, FALSE)
PendingPod == Pod(MaxGen, "Pending", << TRUE >>, FALSE)
UnreportedPod == Pod(MaxGen, "Running", << >>, FALSE)

NodeCase(state, skip, driverPod) ==
    [state |-> state, skipLabel |-> skip, pod |-> driverPod]

\* What a node of such a cluster is: in any upgrade state, with the skip label
\* or without it where the label is read.
PassCases ==
    { NodeCase(UpgradeStateUnknown, FALSE, OutdatedPod),
      NodeCase(UpgradeStateDone, FALSE, InSyncPod),
      NodeCase(UpgradeStateUpgradeRequired, FALSE, OutdatedPod),
      NodeCase(UpgradeStateUpgradeRequired, TRUE, OutdatedPod),
      NodeCase(UpgradeStateCordonRequired, FALSE, OutdatedPod),
      NodeCase(UpgradeStateWaitForJobsRequired, FALSE, OutdatedPod),
      NodeCase(UpgradeStatePodDeletionRequired, FALSE, OutdatedPod),
      NodeCase(UpgradeStateDrainRequired, FALSE, OutdatedPod),
      NodeCase(UpgradeStatePodRestartRequired, FALSE, InSyncPod),
      NodeCase(UpgradeStatePodRestartRequired, FALSE, OutdatedPod),
      NodeCase(UpgradeStatePodRestartRequired, FALSE, TerminatingPod),
      NodeCase(UpgradeStatePodRestartRequired, FALSE, NotReadyPod),
      NodeCase(UpgradeStateFailed, FALSE, OutdatedPod),
      NodeCase(UpgradeStateFailed, FALSE, InSyncPod),
      NodeCase(UpgradeStateFailed, FALSE, PendingPod),
      NodeCase(UpgradeStateFailed, FALSE, UnreportedPod),
      NodeCase(UpgradeStateUncordonRequired, FALSE, InSyncPod) }

InitPass ==
    /\ \E cases \in [PassNodes -> PassCases] :
         /\ nodeState = [n \in PassNodes |-> cases[n].state]
         /\ skipLabel = [n \in PassNodes |-> cases[n].skipLabel]
         /\ pod = [n \in PassNodes |-> cases[n].pod]
    /\ annotated = [n \in PassNodes |-> FALSE]
    /\ unschedulable = [n \in PassNodes |-> FALSE]
    /\ dsGen = MaxGen
    /\ configured \in Policies
    /\ policy = configured
    /\ pc = "idle"
    /\ snapshot = Nil
    /\ calls = << >>
    /\ ret = "none"
    /\ startedUnsched = [n \in PassNodes |-> FALSE]

NextPass ==
    \/ BuildState
    \/ ApplyStateCall
    \/ ReturnToCaller

SpecPass == InitPass /\ [][NextPass]_vars

\* ---------------------------------------------- reading a finished pass
\* ApplyState has returned from a pass that went past its two input checks.
ActivePass ==
    /\ pc = "applied"
    /\ snapshot # Nil
    /\ policy # Nil
    /\ Deref(policy).AutoUpgrade

SnapList(s) == Deref(snapshot).NodeStates[s]

SnapNames(s) == { SnapList(s)[i].Node.Name : i \in 1..Len(SnapList(s)) }

\* The state the snapshot lists node n in, and the node's unit in that list.
SnapState(n) == CHOOSE s \in UpgradeStates : n \in SnapNames(s)

SnapUnit(n) ==
    LET list == SnapList(SnapState(n))
    IN list[CHOOSE i \in 1..Len(list) : list[i].Node.Name = n]

PerNodeOps ==
    { "ChangeNodeUpgradeState", "ChangeNodeUpgradeAnnotation", "Cordon", "Uncordon",
      "GetPodTemplateGeneration" }

WriteOps == { "ChangeNodeUpgradeState", "ChangeNodeUpgradeAnnotation" }

CollaboratorOps ==
    { "Cordon", "Uncordon", "ScheduleCheckOnPodCompletion", "SchedulePodEviction",
      "ScheduleNodesDrain", "SchedulePodsRestart" }

PhaseIndex(s) == CHOOSE i \in 1..Len(ProcessorOrder) : ProcessorOrder[i] = s

\* The phase a call belongs to, read from the call alone: the snapshot phase
\* of the node it is about, or the phase whose nodes the batch call hands over.
CallPhase(call) ==
    CASE call.op \in PerNodeOps -> PhaseIndex(SnapState(call.nodes[1]))
      [] call.op = "ScheduleCheckOnPodCompletion" -> PhaseIndex(UpgradeStateWaitForJobsRequired)
      [] call.op = "SchedulePodEviction" -> PhaseIndex(UpgradeStatePodDeletionRequired)
      [] call.op = "ScheduleNodesDrain" -> PhaseIndex(UpgradeStateDrainRequired)
      [] call.op = "SchedulePodsRestart" -> PhaseIndex(UpgradeStatePodRestartRequired)

\* The processors of the phases up to s returned no error.
Completed(s) ==
    \/ ret = "nil"
    \/ /\ calls # << >>
       /\ CallPhase(calls[Len(calls)]) > PhaseIndex(s)

\* Calls of the pass of operation op about node n, by position.
CallsOn(op, n) ==
    { i \in 1..Len(calls) : calls[i].op = op /\ calls[i].nodes = << n >> }

InFlight == { n \in DOMAIN nodeState : nodeState[n] \in InProgressStates }

SnapInFlight == { n \in DOMAIN nodeState : SnapState(n) \in InProgressStates }

Min(a, b) == IF a <= b THEN a ELSE b

\* --------------------------------------------------------------- claims
\* C1: in one pass with MaxParallelUpgrades = N > 0 and k snapshot nodes in the
\* seven in-progress phases (upgrade-failed included), at most max(N-k, 0)
\* nodes are moved from upgrade-required to cordon-required, and exactly
\* min(max(N-k, 0), unlabelled upgrade-required nodes) once the processor has
\* returned without error; with N = 0 every upgrade-required node without the
\* skip label is moved.
C1_SlotLimit ==
    ActivePass =>
        LET N == Deref(policy).MaxParallelUpgrades
            k == Cardinality(SnapInFlight)
            slots == IF N - k > 0 THEN N - k ELSE 0
            required == SnapNames(UpgradeStateUpgradeRequired)
            eligible == { n \in required : ~SnapUnit(n).Node.SkipLabel }
            moved == { n \in required : MovedTo(calls, n, UpgradeStateCordonRequired) }
        IN /\ N > 0 => Cardinality(moved) <= slots
           /\ N > 0 /\ Completed(UpgradeStateUpgradeRequired)
                => Cardinality(moved) = Min(slots, Cardinality(eligible))
           /\ N = 0 /\ Completed(UpgradeStateUpgradeRequired) => moved = eligible

\* Three upgrade-required nodes, N = 2, none in progress: two moved, one stays.
C1_Witness ==
    /\ ActivePass
    /\ ret = "nil"
    /\ Deref(policy).MaxParallelUpgrades = 2
    /\ SnapInFlight = {}
    /\ Len(SnapList(UpgradeStateUpgradeRequired)) = 3
    /\ Cardinality({ n \in DOMAIN nodeState : nodeState[n] = UpgradeStateCordonRequired }) = 2
    /\ Cardinality({ n \in DOMAIN nodeState : nodeState[n] = UpgradeStateUpgradeRequired }) = 1

\* C2: with MaxParallelUpgrades = N > 0 and no node in progress at the start,
\* the number of nodes in the in-progress phases never exceeds N, over any
\* sequence of passes on fresh snapshots interleaved with the managers' moves.
C2_InFlightCap ==
    (configured # Nil /\ Deref(configured).MaxParallelUpgrades > 0)
        => Cardinality(InFlight) <= Deref(configured).MaxParallelUpgrades

\* The cap binds: two unlabelled upgrade-required nodes, N = 1, one is started.
C2_Witness ==
    /\ ActivePass
    /\ ret = "nil"
    /\ Deref(policy).MaxParallelUpgrades = 1
    /\ Cardinality({ n \in SnapNames(UpgradeStateUpgradeRequired) :
                        ~SnapUnit(n).Node.SkipLabel }) = 2
    /\ Cardinality(InFlight) = 1

\* C3: a node in upgrade-required with the skip-upgrade label gets no state
\* write and stays in upgrade-required, and it takes no slot: once the
\* processor returned without error, an unlabelled node of the list was moved
\* exactly when fewer unlabelled nodes than slots precede it.
C3_SkipLabel ==
    ActivePass =>
        LET list == SnapList(UpgradeStateUpgradeRequired)
            N == Deref(policy).MaxParallelUpgrades
            available == IF N = 0 THEN Len(list) ELSE N - Cardinality(SnapInFlight)
        IN \A i \in 1..Len(list) :
             LET n == list[i].Node.Name
                 before == Cardinality({ j \in 1..(i - 1) : ~list[j].Node.SkipLabel })
             IN /\ list[i].Node.SkipLabel
                     => /\ CallsOn("ChangeNodeUpgradeState", n) = {}
                        /\ nodeState[n] = UpgradeStateUpgradeRequired
                /\ (~list[i].Node.SkipLabel /\ Completed(UpgradeStateUpgradeRequired))
                     => (MovedTo(calls, n, UpgradeStateCordonRequired) <=> before < available)

\* A labelled node first in the list, one slot, and the node after it is moved.
C3_Witness ==
    /\ ActivePass
    /\ Deref(policy).MaxParallelUpgrades = 1
    /\ SnapInFlight = {}
    /\ Len(SnapList(UpgradeStateUpgradeRequired)) >= 2
    /\ SnapList(UpgradeStateUpgradeRequired)[1].Node.SkipLabel
    /\ ~SnapList(UpgradeStateUpgradeRequired)[2].Node.SkipLabel
    /\ nodeState[SnapList(UpgradeStateUpgradeRequired)[1].Node.Name] = UpgradeStateUpgradeRequired
    /\ nodeState[SnapList(UpgradeStateUpgradeRequired)[2].Node.Name] = UpgradeStateCordonRequired

\* The driver pod of a snapshot unit is in sync: generation of the daemonset,
\* Running, and its containers reported and all ready.
InSyncUnit(u) ==
    /\ u.DriverPod.gen = u.DriverDaemonSet.Generation
    /\ u.DriverPod.phase = "Running"
    /\ Len(u.DriverPod.ready) > 0
    /\ \A i \in 1..Len(u.DriverPod.ready) : u.DriverPod.ready[i]

DiffersUnit(u) == u.DriverPod.gen # u.DriverDaemonSet.Generation

\* The pass wrote the preservation marker of node n.
MarkerWritten(n) ==
    \E i \in CallsOn("ChangeNodeUpgradeAnnotation", n) :
        calls[i].ok /\ calls[i].arg = << "true" >>

\* C4: once the processor of its phase returned without error, a node in
\* Unknown or upgrade-done whose pod generation differs from the daemonset's
\* is moved to upgrade-required, with the marker written if and only if the
\* snapshot has it unschedulable; an Unknown node with matching generation is
\* moved to upgrade-done; an upgrade-done node with matching generation gets
\* no state write and no annotation write.
C4_DoneOrUnknown ==
    ActivePass =>
        \A n \in SnapNames(UpgradeStateUnknown) \cup SnapNames(UpgradeStateDone) :
            Completed(SnapState(n)) =>
                /\ DiffersUnit(SnapUnit(n))
                     => /\ MovedTo(calls, n, UpgradeStateUpgradeRequired)
                        /\ nodeState[n] = UpgradeStateUpgradeRequired
                        /\ MarkerWritten(n) <=> SnapUnit(n).Node.Unschedulable
                /\ (~DiffersUnit(SnapUnit(n)) /\ SnapState(n) = UpgradeStateUnknown)
                     => /\ MovedTo(calls, n, UpgradeStateDone)
                        /\ nodeState[n] = UpgradeStateDone
                /\ (~DiffersUnit(SnapUnit(n)) /\ SnapState(n) = UpgradeStateDone)
                     => /\ CallsOn("ChangeNodeUpgradeState", n) = {}
                        /\ CallsOn("ChangeNodeUpgradeAnnotation", n) = {}
                        /\ nodeState[n] = UpgradeStateDone

\* An unschedulable upgrade-done node with an outdated pod was moved and marked.
C4_Witness ==
    /\ ActivePass
    /\ \E n \in SnapNames(UpgradeStateDone) :
         /\ DiffersUnit(SnapUnit(n))
         /\ SnapUnit(n).Node.Unschedulable
         /\ ~SnapUnit(n).Node.Annotated
         /\ annotated[n]
         /\ nodeState[n] = UpgradeStateUpgradeRequired

\* C5: a node in pod-restart-required or upgrade-failed whose driver pod is in
\* sync and which carries the marker gets no Uncordon call and no write of
\* uncordon-required, and once its processor returned without error it is in
\* upgrade-done with the marker removed after the state write; without the
\* marker it gets no annotation write and is moved to uncordon-required.
C5_MarkerSkipsUncordon ==
    ActivePass =>
        \A n \in SnapNames(UpgradeStatePodRestartRequired) \cup SnapNames(UpgradeStateFailed) :
            InSyncUnit(SnapUnit(n)) =>
                /\ SnapUnit(n).Node.Annotated
                     => /\ CallsOn("Uncordon", n) = {}
                        /\ \A i \in CallsOn("ChangeNodeUpgradeState", n) :
                               calls[i].arg = << UpgradeStateDone >>
                        /\ Completed(SnapState(n))
                             => /\ nodeState[n] = UpgradeStateDone
                                /\ ~annotated[n]
                                /\ \E i \in CallsOn("ChangeNodeUpgradeState", n) :
                                   \E j \in CallsOn("ChangeNodeUpgradeAnnotation", n) :
                                       /\ i < j
                                       /\ calls[i].ok /\ calls[j].ok
                                       /\ calls[j].arg = << "null" >>
                /\ ~SnapUnit(n).Node.Annotated
                     => /\ CallsOn("ChangeNodeUpgradeAnnotation", n) = {}
                        /\ Completed(SnapState(n))
                             => /\ MovedTo(calls, n, UpgradeStateUncordonRequired)
                                /\ nodeState[n] = UpgradeStateUncordonRequired

\* A marked pod-restart-required node with an in-sync pod ended in upgrade-done,
\* unmarked and still unschedulable.
C5_Witness ==
    /\ ActivePass
    /\ \E n \in SnapNames(UpgradeStatePodRestartRequired) :
         /\ InSyncUnit(SnapUnit(n))
         /\ SnapUnit(n).Node.Annotated
         /\ nodeState[n] = UpgradeStateDone
         /\ ~annotated[n]
         /\ unschedulable[n]

\* C6: no ApplyState, aborted or not, calls Uncordon on a node that was
\* unschedulable when the core moved it to upgrade-required and has not been
\* written upgrade-done since.
C6_NoUncordonOfPreCordoned ==
    [][\A n \in DOMAIN nodeState :
          (\E i \in 1..Len(calls') :
               calls'[i].op = "Uncordon" /\ calls'[i].nodes = << n >>)
              => ~startedUnsched[n]]_vars

\* A node that started its upgrade unschedulable went through upgrade-failed
\* and ended in upgrade-done without an Uncordon call, still unschedulable.
C6_Witness ==
    /\ ActivePass
    /\ \E n \in SnapNames(UpgradeStateFailed) :
         /\ SnapUnit(n).Node.Annotated
         /\ SnapUnit(n).Node.Unschedulable
         /\ MovedTo(calls, n, UpgradeStateDone)
         /\ CallsOn("Uncordon", n) = {}
         /\ unschedulable[n]
         /\ ~startedUnsched[n]

\* C7: a state write for a cordon-required (uncordon-required) node comes only
\* after a successful Cordon (Uncordon) of that node; when the call fails,
\* ApplyState returns the error, no state is written for the node and it stays
\* in its phase.
C7_CordonBeforeAdvance ==
    ActivePass =>
        /\ \A n \in SnapNames(UpgradeStateCordonRequired) :
             /\ \A i \in CallsOn("ChangeNodeUpgradeState", n) :
                    /\ calls[i].arg = << UpgradeStateWaitForJobsRequired >>
                    /\ \E j \in CallsOn("Cordon", n) : j < i /\ calls[j].ok
             /\ (\E j \in CallsOn("Cordon", n) : ~calls[j].ok)
                  => /\ ret = "error"
                     /\ CallsOn("ChangeNodeUpgradeState", n) = {}
                     /\ nodeState[n] = UpgradeStateCordonRequired
        /\ \A n \in SnapNames(UpgradeStateUncordonRequired) :
             /\ \A i \in CallsOn("ChangeNodeUpgradeState", n) :
                    /\ calls[i].arg = << UpgradeStateDone >>
                    /\ \E j \in CallsOn("Uncordon", n) : j < i /\ calls[j].ok
             /\ (\E j \in CallsOn("Uncordon", n) : ~calls[j].ok)
                  => /\ ret = "error"
                     /\ CallsOn("ChangeNodeUpgradeState", n) = {}
                     /\ nodeState[n] = UpgradeStateUncordonRequired

\* The Cordon of a cordon-required node failed: error returned, node not moved.
C7_Witness ==
    /\ ActivePass
    /\ ret = "error"
    /\ \E n \in SnapNames(UpgradeStateCordonRequired) :
         /\ \E j \in CallsOn("Cordon", n) : ~calls[j].ok
         /\ nodeState[n] = UpgradeStateCordonRequired
         /\ ~unschedulable[n]

\* The state write of ProcessWaitForJobsRequiredNodes, whose error the
\* processor does not return.
UnreturnedWrite(call) ==
    /\ call.op = "ChangeNodeUpgradeState"
    /\ call.arg = << UpgradeStatePodDeletionRequired >>

\* The state the calls of the pass leave node n in.
LastWritten(n) ==
    LET ok == { i \in CallsOn("ChangeNodeUpgradeState", n) : calls[i].ok }
    IN IF ok = {} THEN SnapState(n)
       ELSE calls[CHOOSE i \in ok : \A j \in ok : j <= i].arg[1]

\* C8: the calls of a pass come in the order of the phases Unknown,
\* upgrade-done, upgrade-required, cordon-required, wait-for-jobs-required,
\* pod-deletion-required, drain-required, pod-restart-required,
\* upgrade-failed, uncordon-required; a call whose error its processor returns
\* is the last call of the pass and ApplyState returns an error; the persisted
\* states are those the successful writes of the pass left.
C8_OrderAndAbort ==
    (pc = "applied" /\ snapshot # Nil) =>
        /\ \A i, j \in 1..Len(calls) :
               i < j => CallPhase(calls[i]) <= CallPhase(calls[j])
        /\ \A i \in 1..Len(calls) : calls[i].proc = CallPhase(calls[i])
        /\ \A i \in 1..Len(calls) :
               (~calls[i].ok /\ ~UnreturnedWrite(calls[i]))
                   => (i = Len(calls) /\ ret = "error")
        /\ ret = "error" => (calls # << >> /\ ~calls[Len(calls)].ok)
        /\ \A n \in DOMAIN nodeState : nodeState[n] = LastWritten(n)

\* A pass that wrote a state, then failed before the pod-restart processor,
\* which was not run, although a node was waiting in pod-restart-required.
C8_Witness ==
    /\ pc = "applied"
    /\ snapshot # Nil
    /\ ret = "error"
    /\ \E i \in 1..Len(calls) : calls[i].ok /\ calls[i].op = "ChangeNodeUpgradeState"
    /\ SnapList(UpgradeStatePodRestartRequired) # << >>
    /\ CallPhase(calls[Len(calls)]) < PhaseIndex(UpgradeStatePodRestartRequired)
    /\ \A i \in 1..Len(calls) : calls[i].op # "SchedulePodsRestart"

\* C9: ApplyState on a nil snapshot returns an error, and on a snapshot with a
\* nil policy or AutoUpgrade off returns nil; in both cases it issues no call
\* and leaves the cluster and the policy as they were.
C9_InputChecks ==
    [][(pc = "built" /\ pc' = "applied"
          /\ (snapshot = Nil \/ policy = Nil \/ ~Deref(policy).AutoUpgrade))
         => /\ ret' = (IF snapshot = Nil THEN "error" ELSE "nil")
            /\ calls' = << >>
            /\ UNCHANGED << cluster, policy >>]_vars

\* AutoUpgrade is off and a node waits in cordon-required: nothing was called.
C9_Witness ==
    /\ pc = "applied"
    /\ snapshot # Nil
    /\ policy # Nil
    /\ ~Deref(policy).AutoUpgrade
    /\ SnapList(UpgradeStateCordonRequired) # << >>
    /\ ret = "nil"
    /\ calls = << >>

Range(f) == { f[i] : i \in DOMAIN f }

DrainCalls == { i \in 1..Len(calls) : calls[i].op = "ScheduleNodesDrain" }

\* C10: with the drain spec absent or not enabled the Drain Manager is not
\* called and, once the processor returned without error, every drain-required
\* node is in pod-restart-required; with drain enabled no state is written for
\* a drain-required node and, once the processors before it returned without
\* error, one ScheduleNodesDrain call hands over all drain-required nodes with a
\* selector holding the configured terms and the negative skip-drain term.
C10_Drain ==
    ActivePass =>
        LET list == SnapList(UpgradeStateDrainRequired)
            spec == Deref(configured).DrainSpec
        IN IF spec = Nil \/ ~Deref(spec).Enable
           THEN /\ DrainCalls = {}
                /\ Completed(UpgradeStateDrainRequired)
                     => \A n \in SnapNames(UpgradeStateDrainRequired) :
                            /\ MovedTo(calls, n, UpgradeStatePodRestartRequired)
                            /\ nodeState[n] = UpgradeStatePodRestartRequired
           ELSE /\ \A n \in SnapNames(UpgradeStateDrainRequired) :
                       /\ CallsOn("ChangeNodeUpgradeState", n) = {}
                       /\ nodeState[n] = UpgradeStateDrainRequired
                /\ Cardinality(DrainCalls) <= 1
                /\ Completed(UpgradeStatePodDeletionRequired)
                     => \E i \in DrainCalls :
                            /\ calls[i].nodes = NodeNames(list)
                            /\ skipDrainPodSelector \in Range(calls[i].arg)
                            /\ Range(Deref(spec).PodSelector) \subseteq Range(calls[i].arg)

\* Drain is enabled with a configured selector and a drain-required node was
\* handed to the Drain Manager and left in its phase.
C10_Witness ==
    /\ ActivePass
    /\ Deref(configured).DrainSpec # Nil
    /\ Deref(Deref(configured).DrainSpec).Enable
    /\ Deref(Deref(configured).DrainSpec).PodSelector # << >>
    /\ SnapList(UpgradeStateDrainRequired) # << >>
    /\ \E i \in DrainCalls :
         /\ calls[i].ok
         /\ calls[i].nodes = NodeNames(SnapList(UpgradeStateDrainRequired))
         /\ Len(calls[i].arg) = 2
    /\ \A n \in SnapNames(UpgradeStateDrainRequired) : nodeState[n] = UpgradeStateDrainRequired

\* The exit transitions of the phase table.
Successors(s) ==
    CASE s = UpgradeStateUnknown -> { UpgradeStateUpgradeRequired, UpgradeStateDone }
      [] s = UpgradeStateDone -> { UpgradeStateUpgradeRequired }
      [] s = UpgradeStateUpgradeRequired -> { UpgradeStateCordonRequired }
      [] s = UpgradeStateCordonRequired -> { UpgradeStateWaitForJobsRequired }
      [] s = UpgradeStateWaitForJobsRequired -> { UpgradeStatePodDeletionRequired }
      [] s = UpgradeStatePodDeletionRequired -> { UpgradeStateDrainRequired }
      [] s = UpgradeStateDrainRequired -> { UpgradeStatePodRestartRequired }
      [] s = UpgradeStatePodRestartRequired -> { UpgradeStateUncordonRequired, UpgradeStateDone }
      [] s = UpgradeStateFailed -> { UpgradeStateUncordonRequired, UpgradeStateDone }
      [] s = UpgradeStateUncordonRequired -> { UpgradeStateDone }

\* C11: in one pass every node, listed in exactly one phase of the snapshot,
\* gets at most one state write, the state written is an exit transition of
\* its snapshot phase, and the node ends the pass in its snapshot phase or in
\* such a successor: no node advances by more than one phase.
C11_OneStepPerPass ==
    ActivePass =>
        \A n \in DOMAIN nodeState :
            /\ Cardinality({ s \in UpgradeStates : n \in SnapNames(s) }) = 1
            /\ Cardinality(CallsOn("ChangeNodeUpgradeState", n)) <= 1
            /\ \A i \in CallsOn("ChangeNodeUpgradeState", n) :
                   calls[i].arg[1] \in Successors(SnapState(n))
            /\ nodeState[n] \in { SnapState(n) } \cup Successors(SnapState(n))

\* A node was moved into upgrade-required by an early processor of a pass whose
\* upgrade-required processor ran with a slot to spare, and it stayed there.
C11_Witness ==
    /\ ActivePass
    /\ ret = "nil"
    /\ Deref(policy).MaxParallelUpgrades = 2
    /\ SnapInFlight = {}
    /\ \E a \in SnapNames(UpgradeStateUnknown) \cup SnapNames(UpgradeStateDone) :
       \E b \in SnapNames(UpgradeStateUpgradeRequired) :
           /\ MovedTo(calls, a, UpgradeStateUpgradeRequired)
           /\ MovedTo(calls, b, UpgradeStateCordonRequired)
           /\ ~skipLabel[a]
           /\ nodeState[a] = UpgradeStateUpgradeRequired

\* C12: whenever a state-provider write or a call to the Cordon, Pod or Drain
\* Manager fails during a pass, ApplyState stops there and returns the error:
\* the failed call is the last call of the pass and the pass returns an error.
C12_ErrorsReturned ==
    (pc = "applied" /\ snapshot # Nil) =>
        \A i \in 1..Len(calls) :
            (~calls[i].ok /\ calls[i].op \in WriteOps \cup CollaboratorOps)
                => (i = Len(calls) /\ ret = "error")

\* ------------------------------------ writers between snapshot and pass
\* The Pod Manager or the Drain Manager finishes the job of a node and writes
\* its next state, or upgrade-failed, after the snapshot was built and before
\* ApplyState runs on it.
StaleManagerAdvances(n) ==
    /\ pc = "built"
    /\ snapshot # Nil
    /\ \/ /\ nodeState[n] = UpgradeStateWaitForJobsRequired
          /\ nodeState' = [nodeState EXCEPT ![n] = UpgradeStatePodDeletionRequired]
       \/ /\ nodeState[n] = UpgradeStatePodDeletionRequired
          /\ nodeState' = [nodeState EXCEPT ![n] = UpgradeStateDrainRequired]
       \/ /\ nodeState[n] = UpgradeStateDrainRequired
          /\ nodeState' = [nodeState EXCEPT ![n] = UpgradeStatePodRestartRequired]
       \/ /\ nodeState[n] \in { UpgradeStatePodDeletionRequired, UpgradeStateDrainRequired,
                                UpgradeStatePodRestartRequired }
          /\ nodeState' = [nodeState EXCEPT ![n] = UpgradeStateFailed]
    /\ UNCHANGED << annotated, unschedulable, skipLabel, pod, dsGen, policy,
                    pass, history >>

ConcurrentWriter == \E n \in DOMAIN nodeState : StaleManagerAdvances(n)

NextStale ==
    \/ BuildState
    \/ ApplyStateCall
    \/ ReturnToCaller
    \/ DaemonSetUpdate
    \/ Environment
    \/ ConcurrentWriter

SpecStale == Init /\ [][NextStale]_vars

FailedCall ==
    IF \A i \in 1..Len(calls) : calls[i].ok THEN 0
    ELSE CHOOSE i \in 1..Len(calls) : ~calls[i].ok

\* C14: ApplyState called again with the same snapshot and the same policy
\* object, the collaborators answering as in the first call, issues the same
\* sequence of calls with the same arguments as the first call did.
C14_Deterministic ==
    ActivePass => ApplyState(snapshot, policy, FailedCall).ctx.calls = calls

\* The transitions a log of calls has written: node and new state.
Wrote(log) ==
    { << log[i].nodes[1], log[i].arg[1] >> :
        i \in { j \in 1..Len(log) : log[j].op = "ChangeNodeUpgradeState" /\ log[j].ok } }

\* The calls of the pass that follows with no change in between: ApplyState on
\* the snapshot rebuilt from the cluster as the pass left it, no call failing.
FollowingPass == ApplyState(Ptr(ClusterUpgradeStateOf), configured, 0).ctx.calls

\* The calls the pass would have issued had no call failed.
UnbrokenPass == ApplyState(snapshot, configured, 0).ctx.calls

\* The transitions a log of calls has tried to write, with or without success.
Attempted(log) ==
    { << log[i].nodes[1], log[i].arg[1] >> :
        i \in { j \in 1..Len(log) : log[j].op = "ChangeNodeUpgradeState" } }

\* C15: the pass following a pass writes no transition that pass has written,
\* and after an aborted pass it writes every transition the aborted pass did
\* not reach.
C15_RetryResumes ==
    ActivePass =>
        /\ Wrote(FollowingPass) \cap Wrote(calls) = {}
        /\ ret = "error"
             => (Wrote(UnbrokenPass) \ Attempted(calls)) \subseteq Wrote(FollowingPass)

\* C15 as amended: the pass following a pass writes no transition that pass has
\* written, and after an aborted pass it writes every transition the aborted
\* pass did not write (not reached, or failed), except that under a cap N > 0 a node may stay in
\* upgrade-required when the slots counted on the new snapshot are used up by
\* the nodes in progress and the nodes the following pass starts.
C15_RetryResumesWithinSlots ==
    ActivePass =>
        /\ Wrote(FollowingPass) \cap Wrote(calls) = {}
        /\ ret = "error" =>
             \A w \in Wrote(UnbrokenPass) \ Wrote(calls) :
                 \/ w \in Wrote(FollowingPass)
                 \/ /\ w[2] = UpgradeStateCordonRequired
                    /\ Deref(configured).MaxParallelUpgrades > 0
                    /\ Cardinality(InFlight)
                         + Cardinality({ v \in Wrote(FollowingPass) :
                                           v[2] = UpgradeStateCordonRequired })
                       >= Deref(configured).MaxParallelUpgrades

\* A pass wrote a transition and aborted before another one, which the
\* following pass writes.
C15_Witness ==
    /\ ActivePass
    /\ ret = "error"
    /\ Wrote(calls) # {}
    /\ Wrote(UnbrokenPass) \ Wrote(calls) # {}
    /\ (Wrote(UnbrokenPass) \ Wrote(calls)) \subseteq Wrote(FollowingPass)

\* In sync as the phase table states it: generation of the daemonset, Running,
\* every reported container ready.
InSyncAsStated(u) ==
    /\ u.DriverPod.gen = u.DriverDaemonSet.Generation
    /\ u.DriverPod.phase = "Running"
    /\ \A i \in 1..Len(u.DriverPod.ready) : u.DriverPod.ready[i]

\* C16: a node in pod-restart-required or upgrade-failed whose driver pod is
\* not in sync (generation differing, not Running, or a container not ready)
\* gets no state write and stays in its phase: the core moves such a node only
\* when its pod is in sync.
C16_LeavesOnlyInSync ==
    ActivePass =>
        \A n \in SnapNames(UpgradeStatePodRestartRequired) \cup SnapNames(UpgradeStateFailed) :
            ~InSyncAsStated(SnapUnit(n))
                => /\ CallsOn("ChangeNodeUpgradeState", n) = {}
                   /\ CallsOn("ChangeNodeUpgradeAnnotation", n) = {}
                   /\ nodeState[n] = SnapState(n)

\* In one pass a pod-restart-required node with a container not ready and an
\* upgrade-failed node with a pending pod stay, an in-sync upgrade-failed node
\* leaves.
C16_Witness ==
    /\ ActivePass
    /\ ret = "nil"
    /\ \E a \in SnapNames(UpgradeStatePodRestartRequired) :
         /\ SnapUnit(a).DriverPod = NotReadyPod
         /\ nodeState[a] = UpgradeStatePodRestartRequired
    /\ \E b \in SnapNames(UpgradeStateFailed) :
         /\ SnapUnit(b).DriverPod = PendingPod
         /\ nodeState[b] = UpgradeStateFailed
    /\ \E d \in SnapNames(UpgradeStateFailed) :
         /\ InSyncAsStated(SnapUnit(d))
         /\ nodeState[d] = UpgradeStateUncordonRequired

RestartCalls == { i \in 1..Len(calls) : calls[i].op = "SchedulePodsRestart" }

\* The driver pods of the pod-restart-required list, by node and in list order,
\* whose generation differs from the daemonset's and which are not being deleted.
RestartablePods ==
    LET q == SelectSeq(SnapList(UpgradeStatePodRestartRequired),
                       LAMBDA u : DiffersUnit(u) /\ ~u.DriverPod.terminating)
    IN [i \in 1..Len(q) |-> q[i].Node.Name]

\* C17: the list handed to SchedulePodsRestart holds the driver pod of a
\* pod-restart-required node if and only if the pod's generation differs from
\* the daemonset's and its deletion timestamp is unset; the call is made once
\* in a pass that returns without error; a node whose pod is queued gets no
\* state write.
C17_RestartQueue ==
    ActivePass =>
        /\ \A i \in RestartCalls : calls[i].nodes = RestartablePods
        /\ Cardinality(RestartCalls) <= 1
        /\ ret = "nil" => RestartCalls # {}
        /\ \A i \in 1..Len(RestartablePods) :
               /\ CallsOn("ChangeNodeUpgradeState", RestartablePods[i]) = {}
               /\ nodeState[RestartablePods[i]] = UpgradeStatePodRestartRequired

\* Of three pod-restart-required nodes with an outdated, a terminating and an
\* in-sync pod, the first alone is queued.
C17_Witness ==
    /\ ActivePass
    /\ ret = "nil"
    /\ \E a, b, d \in SnapNames(UpgradeStatePodRestartRequired) :
         /\ SnapUnit(a).DriverPod = OutdatedPod
         /\ SnapUnit(b).DriverPod = TerminatingPod
         /\ SnapUnit(d).DriverPod = InSyncPod
         /\ \E i \in RestartCalls : calls[i].nodes = << a >>
         /\ nodeState[a] = UpgradeStatePodRestartRequired
         /\ nodeState[b] = UpgradeStatePodRestartRequired
         /\ nodeState[d] = UpgradeStateUncordonRequired

CheckCalls == { i \in 1..Len(calls) : calls[i].op = "ScheduleCheckOnPodCompletion" }

\* C18: with no wait-for-completion selector configured the Pod Manager is not
\* asked for a completion check and, once the processor returned without
\* error, every wait-for-jobs-required node is in pod-deletion-required; with a
\* selector configured no state is written for these nodes and, once the
\* processors before returned without error, ScheduleCheckOnPodCompletion is
\* called once with the selector and all these nodes, or not at all when there
\* is none.
C18_WaitForJobs ==
    ActivePass =>
        LET list == SnapList(UpgradeStateWaitForJobsRequired)
            spec == Deref(configured).WaitForCompletion
        IN IF spec = Nil \/ Deref(spec).PodSelector = ""
           THEN /\ CheckCalls = {}
                /\ Completed(UpgradeStateWaitForJobsRequired)
                     => \A n \in SnapNames(UpgradeStateWaitForJobsRequired) :
                            /\ MovedTo(calls, n, UpgradeStatePodDeletionRequired)
                            /\ nodeState[n] = UpgradeStatePodDeletionRequired
           ELSE /\ \A n \in SnapNames(UpgradeStateWaitForJobsRequired) :
                       /\ CallsOn("ChangeNodeUpgradeState", n) = {}
                       /\ nodeState[n] = UpgradeStateWaitForJobsRequired
                /\ Cardinality(CheckCalls) <= 1
                /\ Completed(UpgradeStateCordonRequired)
                     => IF list = << >> THEN CheckCalls = {}
                        ELSE \E i \in CheckCalls :
                                 /\ calls[i].nodes = NodeNames(list)
                                 /\ calls[i].arg = << Deref(spec).PodSelector >>

\* The nodes of the snapshot whose work is a manager's: pod-deletion-required,
\* wait-for-jobs-required under a configured selector, drain-required under an
\* enabled drain.
HandedOff ==
    LET wait == Deref(configured).WaitForCompletion
        drain == Deref(configured).DrainSpec
    IN SnapNames(UpgradeStatePodDeletionRequired)
         \cup (IF wait # Nil /\ Deref(wait).PodSelector # ""
               THEN SnapNames(UpgradeStateWaitForJobsRequired) ELSE {})
         \cup (IF drain # Nil /\ Deref(drain).Enable
               THEN SnapNames(UpgradeStateDrainRequired) ELSE {})

\* The call that hands the nodes of a phase to their manager.
HandOffOp(s) ==
    CASE s = UpgradeStateWaitForJobsRequired -> "ScheduleCheckOnPodCompletion"
      [] s = UpgradeStatePodDeletionRequired -> "SchedulePodEviction"
      [] s = UpgradeStateDrainRequired -> "ScheduleNodesDrain"

\* C19: a node in pod-deletion-required, in wait-for-jobs-required with a
\* selector configured, or in drain-required with drain enabled gets no state
\* write and no annotation write; its persisted state and its marker are after
\* the pass what the snapshot recorded, and a pass that returns without error
\* has handed it to the Pod Manager or the Drain Manager.
C19_HandOffOnly ==
    ActivePass =>
        \A n \in HandedOff :
            /\ CallsOn("ChangeNodeUpgradeState", n) = {}
            /\ CallsOn("ChangeNodeUpgradeAnnotation", n) = {}
            /\ nodeState[n] = SnapState(n)
            /\ annotated[n] = SnapUnit(n).Node.Annotated
            /\ ret = "nil"
                 => \E i \in 1..Len(calls) :
                        /\ calls[i].op = HandOffOp(SnapState(n))
                        /\ n \in Range(calls[i].nodes)

\* A marked node waiting for jobs under a configured selector was handed to the
\* Pod Manager and is as the snapshot recorded it.
C19_Witness ==
    /\ ActivePass
    /\ ret = "nil"
    /\ \E n \in SnapNames(UpgradeStateWaitForJobsRequired) :
         /\ n \in HandedOff
         /\ SnapUnit(n).Node.Annotated
         /\ annotated[n]
         /\ nodeState[n] = UpgradeStateWaitForJobsRequired
         /\ \E i \in CheckCalls : calls[i].ok /\ calls[i].nodes = << n >>


\* The positions in the log of the calls of an operation on node n with the
\* argument arg.
CallsWith(op, n, arg) == { i \in CallsOn(op, n) : calls[i].arg = << arg >> }

\* C20: for an unschedulable node of the unknown or upgrade-done list, every
\* write of upgrade-required follows a successful write of the marker on that
\* node; when the marker write fails the pass returns the error, issues no state
\* write for the node and leaves its persisted state as it was; and a node the
\* core moved to upgrade-required while unschedulable carries the marker as long
\* as it is in upgrade-required.
C20_MarkerBeforePhase ==
    /\ ActivePass =>
         \A n \in SnapNames(UpgradeStateUnknown) \cup SnapNames(UpgradeStateDone) :
            SnapUnit(n).Node.Unschedulable =>
                /\ \A i \in CallsWith("ChangeNodeUpgradeState", n, UpgradeStateUpgradeRequired) :
                      \E j \in CallsWith("ChangeNodeUpgradeAnnotation", n, "true") :
                          j < i /\ calls[j].ok
                /\ (\E j \in CallsOn("ChangeNodeUpgradeAnnotation", n) : ~calls[j].ok)
                      => /\ ret = "error"
                         /\ CallsOn("ChangeNodeUpgradeState", n) = {}
                         /\ nodeState[n] = SnapState(n)
    /\ \A n \in DOMAIN nodeState :
         (nodeState[n] = UpgradeStateUpgradeRequired /\ startedUnsched[n]) => annotated[n]

\* The marker write on an unschedulable upgrade-done node failed: the pass
\* returned the error and the node is still in upgrade-done, unmarked.
C20_Witness ==
    /\ ActivePass
    /\ ret = "error"
    /\ \E n \in SnapNames(UpgradeStateDone) :
         /\ SnapUnit(n).Node.Unschedulable
         /\ ~SnapUnit(n).Node.Annotated
         /\ \E j \in CallsWith("ChangeNodeUpgradeAnnotation", n, "true") : ~calls[j].ok
         /\ nodeState[n] = UpgradeStateDone
         /\ ~annotated[n]


\* C22: the policy object handed to ApplyState has, when the pass has returned,
\* the value it had before the call, in every field, the pod selector of its
\* DrainSpec included.
C22_PolicyUnchanged ==
    pc = "applied" => policy = configured


\* C23: no pass moves to upgrade-done, from pod-restart-required or
\* upgrade-failed and so without an Uncordon call, a node that was schedulable
\* when the core moved it to upgrade-required and that the core cordoned since:
\* no marker of an earlier upgrade is on the node when its upgrade finishes.
C23_NoStaleMarker ==
    [][(pc = "built" /\ pc' = "applied" /\ snapshot # Nil)
          => \A n \in DOMAIN nodeState :
                (/\ nodeState[n] \in { UpgradeStatePodRestartRequired, UpgradeStateFailed }
                 /\ ~startedUnsched[n]
                 /\ unschedulable[n])
                    => ~MovedTo(calls', n, UpgradeStateDone)]_vars


\* ------------------------------------------------- the loop run fairly
\* A pass on a freshly built snapshot.
FreshPass == BuildState /\ snapshot' # Nil

\* A pass on a snapshot in which every call succeeds.
CleanPass ==
    /\ ApplyStateCall
    /\ snapshot # Nil
    /\ \A i \in 1..Len(calls') : calls'[i].ok

\* The Pod Manager or the Drain Manager finishes the job of node n.
ManagerCompletes(n) == ManagerAdvances(n) /\ nodeState'[n] # UpgradeStateFailed

\* The reconcile loop is triggered again and again with a fresh snapshot, every
\* pass returns, the calls of a pass succeed again and again, the managers
\* finish the jobs handed
\* to them, and a driver pod queued for restart is deleted, recreated, started
\* and becomes ready.
Fairness ==
    /\ WF_vars(FreshPass)
    /\ SF_vars(CleanPass)
    /\ WF_vars(ApplyStateCall)
    /\ WF_vars(ReturnToCaller)
    /\ \A n \in Nodes :
         /\ SF_vars(ManagerCompletes(n))
         /\ SF_vars(PodManagerDeletesPod(n))
         /\ SF_vars(PodRecreated(n))
         /\ SF_vars(PodProgresses(n))

\* The cluster of Init under a policy with AutoUpgrade on.
InitLive ==
    /\ Init
    /\ configured # Nil
    /\ Deref(configured).AutoUpgrade

\* The loop always builds its snapshot; the administrator leaves the nodes alone.
EnvironmentLive ==
    \E n \in DOMAIN nodeState :
        \/ PodManagerDeletesPod(n)
        \/ PodRecreated(n)
        \/ PodProgresses(n)
        \/ ManagerAdvances(n)

NextLive ==
    \/ FreshPass
    \/ ApplyStateCall
    \/ ReturnToCaller
    \/ DaemonSetUpdate
    \/ EnvironmentLive

SpecLive == InitLive /\ [][NextLive]_vars /\ Fairness

\* The driver pod of node n is in sync with the daemonset.
PodInSync(n) == InSyncUnit(NodeUpgradeStateOf(n))

\* Some node is in upgrade-failed.
SomeFailed == \E m \in Nodes : nodeState[m] = UpgradeStateFailed

=============================================================================
